---- MODULE Spec2Model ----
(***************************************************************************)
(* Crossed wires (a3-crossed-wires/src/main.rs): two wires are given as    *)
(* comma-separated move tokens, every wire is rasterized into the grid     *)
(* points it visits, and the points common to both wires are scored by     *)
(* Manhattan distance and by combined step count.                          *)
(*                                                                         *)
(* A token is a sequence of one-character strings (<<"R","7","5">> is      *)
(* R75), a text is a sequence of lines, a line a sequence of tokens.       *)
(* Option<T> is a sequence of length at most one: None is <<>>, Some(v)    *)
(* is <<v>>.  Coordinates and distances of the model stay far inside the   *)
(* i32 range, so the wrapping of i32 additions is not exercised.           *)
(***************************************************************************)
EXTENDS Integers, Sequences, FiniteSets, TLC

VARIABLES
    pc,          \* position of the running function
    text,        \* the input, split in lines and tokens
    wires,       \* Vec<Wire> returned by parse_wires
    out,         \* lines printed by main
    wire_moves,  \* the moves of the wire being rasterized
    pos,         \* number of moves of wire_moves already consumed
    current,     \* parse_wires: end of the last segment
    before,      \* parse_wires: start of the last segment
    points,      \* parse_wires: flattened points collected so far
    left,        \* first argument of a find_* call
    right,       \* second argument of a find_* call
    first,       \* first argument of an all_points_between call
    second,      \* second argument of an all_points_between call
    called,      \* name of the function called last
    ret          \* what that call returned

vars == <<pc, text, wires, out, wire_moves, pos, current, before, points,
          left, right, first, second, called, ret>>

(***************************************************************************)
(* Bounds of the model.                                                    *)
(***************************************************************************)
\* moves per wire in the rasterizer specification
MaxMoves == 3
\* largest distance of a generated move in the rasterizer specification
MaxDist == 2
\* total number of grid steps of a generated wire in the main specification
MainSteps == 3
\* length of an arbitrary point sequence handed to the find_* functions
MaxLen == 3
\* largest absolute coordinate of an endpoint handed to all_points_between
MaxCoord == 2

(***************************************************************************)
(* Values.                                                                 *)
(***************************************************************************)
None == <<>>

Some(v) == <<v>>

Abs(n) == IF n < 0 THEN -n ELSE n

Range(s) == {s[i] : i \in 1..Len(s)}

Point(px, py) == [x |-> px, y |-> py]

origin == Point(0, 0)

I32Max == 2147483647

\* `distance as i32`: a u32 above i32::MAX wraps to a negative number
AsI32(d) == IF d <= I32Max THEN d ELSE ((d - I32Max) - I32Max) - 2

(***************************************************************************)
(* Move parser.                                                            *)
(***************************************************************************)
DirectionFrom(chr) ==
    CASE chr = "U" -> "Up"
      [] chr = "D" -> "Down"
      [] chr = "L" -> "Left"
      [] chr = "R" -> "Right"

DigitValue(chr) ==
    CASE chr = "0" -> 0 [] chr = "1" -> 1 [] chr = "2" -> 2 [] chr = "3" -> 3
      [] chr = "4" -> 4 [] chr = "5" -> 5 [] chr = "6" -> 6 [] chr = "7" -> 7
      [] chr = "8" -> 8 [] chr = "9" -> 9

RECURSIVE ParseU32(_, _)
\* str::parse::<u32> on the digits after the direction letter
ParseU32(digits, acc) ==
    IF digits = <<>> THEN acc
    ELSE ParseU32(Tail(digits), acc * 10 + DigitValue(Head(digits)))

MoveFrom(string) ==
    [direction |-> DirectionFrom(Head(string)),
     distance  |-> ParseU32(Tail(string), 0)]

\* lines 22-32: every token of every line becomes a Move
ReadMoves(txt) ==
    [w \in 1..Len(txt) |-> [i \in 1..Len(txt[w]) |-> MoveFrom(txt[w][i])]]

(***************************************************************************)
(* Point + Move.                                                           *)
(***************************************************************************)
PointAdd_swapped(self, move_) ==
    CASE move_.direction = "Left"  -> Point(self.x - AsI32(move_.distance), self.y)
      [] move_.direction = "Right" -> Point(self.x + AsI32(move_.distance), self.y)
      [] move_.direction = "Up"    -> Point(self.x, self.y - AsI32(move_.distance))
      [] move_.direction = "Down"  -> Point(self.x, self.y + AsI32(move_.distance))

PointAdd(self, move_) ==
    CASE move_.direction = "Left"  -> Point(self.x - AsI32(move_.distance), self.y)
      [] move_.direction = "Right" -> Point(self.x + AsI32(move_.distance), self.y)
      [] move_.direction = "Up"    -> Point(self.x, self.y + AsI32(move_.distance))
      [] move_.direction = "Down"  -> Point(self.x, self.y - AsI32(move_.distance))

(***************************************************************************)
(* all_points_between.                                                     *)
(***************************************************************************)
\* a.cmp(&b) mapped to 1 / 0 / -1
CmpStep(a, b) == IF a > b THEN 1 ELSE IF a = b THEN 0 ELSE -1

StepOf(fst, snd) == Point(CmpStep(snd.x, fst.x), CmpStep(snd.y, fst.y))

RECURSIVE WalkLoop_pushfirst(_, _, _)
WalkLoop_pushfirst(cur, snd, step) ==
    LET next == Point(cur.x + step.x, cur.y + step.y)
    IN  IF next = snd THEN <<next>>
        ELSE <<next>> \o WalkLoop_pushfirst(next, snd, step)

RECURSIVE WalkLoop(_, _, _)
\* the loop of lines 101-110: advance, stop on the second point, else push
WalkLoop(cur, snd, step) ==
    LET next == Point(cur.x + step.x, cur.y + step.y)
    IN  IF next = snd THEN <<>>
        ELSE <<next>> \o WalkLoop(next, snd, step)

all_points_between_adjacent2(fst, snd) ==
    LET step == StepOf(fst, snd)
    IN  IF ~(step.x = 0 \/ step.y = 0)
        THEN [panic |-> TRUE, points |-> <<>>]
        ELSE IF Abs(snd.x - fst.x) <= 2 /\ Abs(snd.y - fst.y) <= 2
        THEN [panic |-> FALSE, points |-> <<>>]
        ELSE [panic |-> FALSE, points |-> WalkLoop(fst, snd, step)]

all_points_between_noassert(fst, snd) ==
    LET step == StepOf(fst, snd)
    IN  IF Abs(snd.x - fst.x) = 1 \/ Abs(snd.y - fst.y) = 1
        THEN [panic |-> FALSE, points |-> <<>>]
        ELSE [panic |-> FALSE,
              points |-> IF step.x = 0 \/ step.y = 0
                         THEN WalkLoop(fst, snd, step) ELSE <<>>]

\* the result of a call: panic is the failed assert!, points the Vec returned
all_points_between(fst, snd) ==
    LET step == StepOf(fst, snd)
    IN  IF ~(step.x = 0 \/ step.y = 0)
        THEN [panic |-> TRUE, points |-> <<>>]
        ELSE IF Abs(snd.x - fst.x) = 1 \/ Abs(snd.y - fst.y) = 1
        THEN [panic |-> FALSE, points |-> <<>>]
        ELSE [panic |-> FALSE, points |-> WalkLoop(fst, snd, step)]

(***************************************************************************)
(* parse_wires.                                                            *)
(***************************************************************************)
\* the closure of lines 46-58 applied to one move at position cur
Segment(cur, move_) ==
    LET nxt     == PointAdd(cur, move_)
        between == all_points_between(cur, nxt)
    IN  [panic   |-> between.panic,
         current |-> nxt,
         points  |-> between.points \o <<nxt>>]

RECURSIVE WirePoints(_, _)
\* lines 44-61: the segments of all moves of one wire, flattened
WirePoints(moves, cur) ==
    IF moves = <<>> THEN [panic |-> FALSE, points |-> <<>>]
    ELSE LET seg  == Segment(cur, Head(moves))
             rest == WirePoints(Tail(moves), seg.current)
         IN  [panic  |-> seg.panic \/ rest.panic,
              points |-> seg.points \o rest.points]

parse_wires(txt) ==
    LET moves_of_wires == ReadMoves(txt)
        raw == [w \in 1..Len(txt) |-> WirePoints(moves_of_wires[w], origin)]
    IN  [panic |-> \E w \in 1..Len(txt) : raw[w].panic,
         wires |-> [w \in 1..Len(txt) |-> <<origin>> \o raw[w].points]]

(***************************************************************************)
(* Inputs.                                                                 *)
(***************************************************************************)
Letters == {"U", "D", "L", "R"}

DigitChars == <<"0", "1", "2", "3", "4", "5", "6", "7", "8", "9">>

RECURSIVE Decimal(_)
Decimal(n) ==
    IF n < 10 THEN <<DigitChars[n + 1]>>
    ELSE Decimal(n \div 10) \o <<DigitChars[(n % 10) + 1]>>

Token(letter, n) == <<letter>> \o Decimal(n)

\* a line written as <<"R", 8, "U", 5>> for R8,U5
Line(spec) ==
    [i \in 1..(Len(spec) \div 2) |-> Token(spec[2 * i - 1], spec[2 * i])]

\* lines of 1..MaxMoves tokens with distances 0..MaxDist
WireLines ==
    LET Tokens == {Token(l, d) : l \in Letters, d \in 0..MaxDist}
    IN  UNION {[1..n -> Tokens] : n \in 1..MaxMoves}

\* test_wire_parsing, first and second wire
ParsingLine1 == Line(<<"R", 2, "U", 2, "L", 3, "D", 1>>)

ParsingLine2 == Line(<<"L", 1, "U", 2, "R", 3>>)

ParsingPath1 ==
    <<Point(0, 0), Point(1, 0), Point(2, 0), Point(2, 1), Point(2, 2),
      Point(1, 2), Point(0, 2), Point(-1, 2), Point(-1, 1)>>

ParsingPath2 ==
    <<Point(0, 0), Point(-1, 0), Point(-1, 1), Point(-1, 2), Point(0, 2),
      Point(1, 2), Point(2, 2)>>

(***************************************************************************)
(* Rasterizer specification: parse_wires on a text of one line, one move   *)
(* of the wire per step.                                                   *)
(***************************************************************************)
Idle ==
    /\ out = <<>>
    /\ left = <<>> /\ right = <<>>
    /\ first = origin /\ second = origin
    /\ called = "none" /\ ret = <<>>

InitWire ==
    /\ pc = "wire_start"
    /\ text \in {<<l>> : l \in WireLines \cup {ParsingLine1, ParsingLine2}}
    /\ wires = <<>>
    /\ wire_moves = <<>> /\ pos = 0
    /\ current = origin /\ before = origin /\ points = <<>>
    /\ Idle

\* lines 22-42
WireStart ==
    /\ pc = "wire_start"
    /\ wire_moves' = ReadMoves(text)[1]
    /\ pos' = 0
    /\ current' = origin
    /\ before' = origin
    /\ points' = <<>>
    /\ pc' = "wire_segments"
    /\ UNCHANGED <<text, wires, out, left, right, first, second, called, ret>>

\* lines 46-58, one move
WireSegment ==
    /\ pc = "wire_segments"
    /\ pos < Len(wire_moves)
    /\ LET move_   == wire_moves[pos + 1]
           nxt     == PointAdd(current, move_)
           between == all_points_between(current, nxt)
       IN  /\ before' = current
           /\ current' = nxt
           /\ pos' = pos + 1
           /\ IF between.panic
              THEN /\ pc' = "panicked"
                   /\ points' = points
              ELSE /\ pc' = "wire_segments"
                   /\ points' = points \o between.points \o <<nxt>>
    /\ UNCHANGED <<text, wires, out, wire_moves, left, right, first, second,
                   called, ret>>

\* lines 59-70: collect, then insert the origin in front
WireInsertOrigin ==
    /\ pc = "wire_segments"
    /\ pos = Len(wire_moves)
    /\ wires' = <<<<origin>> \o points>>
    /\ pc' = "wire_done"
    /\ UNCHANGED <<text, out, wire_moves, pos, current, before, points,
                   left, right, first, second, called, ret>>

NextWire == WireStart \/ WireSegment \/ WireInsertOrigin

SpecWire == InitWire /\ [][NextWire]_vars

(***************************************************************************)
(* Properties of the rasterizer.                                           *)
(***************************************************************************)
UnitOf(direction) ==
    CASE direction = "Right" -> Point(1, 0)
      [] direction = "Left"  -> Point(-1, 0)
      [] direction = "Up"    -> Point(0, 1)
      [] direction = "Down"  -> Point(0, -1)

\* the points reached by n successive unit steps from p in a direction
UnitSteps(p, direction, n) ==
    [i \in 1..n |-> Point(p.x + i * UnitOf(direction).x,
                          p.y + i * UnitOf(direction).y)]

RECURSIVE ReferenceWalk(_, _)
ReferenceWalk(moves, p) ==
    IF moves = <<>> THEN <<>>
    ELSE LET seg == UnitSteps(p, Head(moves).direction, Head(moves).distance)
         IN  seg \o ReferenceWalk(Tail(moves), seg[Len(seg)])

AllPositive(moves) == \A i \in 1..Len(moves) : moves[i].distance >= 1

RECURSIVE SumOfDistances(_)
SumOfDistances(moves) ==
    IF moves = <<>> THEN 0
    ELSE Head(moves).distance + SumOfDistances(Tail(moves))

UnitApart(p, q) ==
    \/ p.x = q.x /\ Abs(p.y - q.y) = 1
    \/ p.y = q.y /\ Abs(p.x - q.x) = 1

\* C1: the path built from moves of distance >= 1 is the origin followed,
\* move by move, by `distance` successive unit steps in the move's direction;
\* the two wires of test_wire_parsing give the paths the test lists.
C1_PathIsReferenceWalk ==
    (pc = "wire_done" /\ AllPositive(wire_moves)) =>
        /\ wires[1][1] = origin
        /\ wires[1] = <<origin>> \o ReferenceWalk(wire_moves, origin)
        /\ (text = <<ParsingLine1>> => wires[1] = ParsingPath1)
        /\ (text = <<ParsingLine2>> => wires[1] = ParsingPath2)

C1_Witness ==
    /\ pc = "wire_done"
    /\ text = <<ParsingLine1>>
    /\ wires[1] = ParsingPath1

\* C2: in a path built from moves of distance >= 1, consecutive points differ
\* in exactly one coordinate and by exactly 1, also from the origin to the
\* first move and from one move to the next.
C2_ConnectedWalk ==
    (pc = "wire_done" /\ AllPositive(wire_moves)) =>
        \A i \in 1..(Len(wires[1]) - 1) : UnitApart(wires[1][i], wires[1][i + 1])

C2_Witness ==
    /\ pc = "wire_done"
    /\ AllPositive(wire_moves)
    /\ Len(wire_moves) >= 3
    /\ wire_moves[1].direction # wire_moves[2].direction
    /\ wire_moves[2].distance >= 2
    /\ \A i \in 1..(Len(wires[1]) - 1) : UnitApart(wires[1][i], wires[1][i + 1])

\* C3: a move of distance N >= 1 appends exactly N points, the N-1 points
\* strictly between the old and the new position in travel order and then
\* the new position; a finished path has 1 + (sum of distances) points.
C3_MoveAppendsN ==
    [][/\ (pc = "wire_segments" /\ pos' = pos + 1
             /\ wire_moves[pos + 1].distance >= 1) =>
            LET N == wire_moves[pos + 1].distance
                walked == UnitSteps(current, wire_moves[pos + 1].direction, N)
            IN  /\ pc' = "wire_segments"
                /\ current' = walked[N]
                /\ points' = points \o walked
                /\ Len(points') = Len(points) + N
       /\ (pc' = "wire_done" /\ AllPositive(wire_moves)) =>
            Len(wires'[1]) = 1 + SumOfDistances(wire_moves)]_vars

C3_Witness ==
    /\ pc = "wire_done"
    /\ \E i \in 1..Len(wire_moves) : wire_moves[i].distance = 1
    /\ \E i \in 1..Len(wire_moves) : wire_moves[i].distance >= 2
    /\ AllPositive(wire_moves)
    /\ Len(wires[1]) = 1 + SumOfDistances(wire_moves)

(***************************************************************************)
(* Intersections and the two metrics.                                      *)
(***************************************************************************)
distance_from_origin_noabs(p) == p.x + p.y

distance_from_origin(p) == Abs(p.x) + Abs(p.y)

find_intersections_keeporigin(l, r) == Range(l) \cap Range(r)

\* both slices collected in HashSets, intersected, the origin removed
find_intersections(l, r) ==
    LET left_set      == Range(l)
        right_set     == Range(r)
        intersections == left_set \cap right_set
    IN  intersections \ {origin}

RECURSIVE Orders(_)
\* the orders in which a HashSet may hand out its elements
Orders(S) ==
    IF S = {} THEN {<<>>}
    ELSE UNION {{<<e>> \o o : o \in Orders(S \ {e})} : e \in S}

IterMin_first(keys) == IF keys = <<>> THEN 0 ELSE 1

\* Iterator::min over the keys of the items, as the index of the item it
\* returns (0 for an empty iterator): of several minimal items the first
IterMin(keys) ==
    IF keys = <<>> THEN 0
    ELSE CHOOSE i \in 1..Len(keys) :
            /\ \A j \in 1..Len(keys) : keys[i] <= keys[j]
            /\ \A j \in 1..(i - 1) : keys[j] > keys[i]

length_to_point_in_wire_last(wire, point) ==
    (CHOOSE i \in 1..Len(wire) :
        wire[i] = point /\ \A j \in (i + 1)..Len(wire) : wire[j] # point) - 1

length_to_point_in_wire_onebased(wire, point) ==
    CHOOSE i \in 1..Len(wire) :
        wire[i] = point /\ \A j \in 1..(i - 1) : wire[j] # point

\* Iterator::position: the zero-based index of the first equal point
length_to_point_in_wire(wire, point) ==
    (CHOOSE i \in 1..Len(wire) :
        wire[i] = point /\ \A j \in 1..(i - 1) : wire[j] # point) - 1

\* every value the call can return, one per iteration order of the set
find_closest_intersection(l, r) ==
    {LET m == IterMin([i \in 1..Len(o) |-> distance_from_origin(o[i])])
     IN  IF m = 0 THEN None ELSE Some(o[m]) :
        o \in Orders(find_intersections(l, r))}

find_minimal_step_intersection(l, r) ==
    {LET steps == [i \in 1..Len(o) |->
                      length_to_point_in_wire(l, o[i])
                          + length_to_point_in_wire(r, o[i])]
         m == IterMin(steps)
     IN  IF m = 0 THEN None ELSE Some(steps[m]) :
        o \in Orders(find_intersections(l, r))}

(***************************************************************************)
(* Main specification: main() on a text of two lines.                      *)
(***************************************************************************)
RECURSIVE LinesOfSteps(_)
\* the lines of moves of distance >= 1 whose distances add up to n
LinesOfSteps(n) ==
    IF n = 0 THEN {<<>>}
    ELSE UNION {{<<Token(l, d)>> \o rest :
                    l \in Letters, rest \in LinesOfSteps(n - d)} : d \in 1..n}

MainLines == UNION {LinesOfSteps(n) : n \in 1..MainSteps}

\* test_wire_crossing_distance, second and third case
Scenario2 ==
    <<Line(<<"R", 75, "D", 30, "R", 83, "U", 83, "L", 12, "D", 49, "R", 71,
             "U", 7, "L", 72>>),
      Line(<<"U", 62, "R", 66, "U", 55, "R", 34, "D", 71, "R", 55, "D", 58,
             "R", 83>>)>>

Scenario3 ==
    <<Line(<<"R", 98, "U", 47, "R", 26, "D", 63, "R", 33, "U", 87, "L", 62,
             "D", 20, "R", 33, "U", 53, "R", 51>>),
      Line(<<"U", 98, "R", 91, "D", 20, "R", 16, "D", 67, "R", 40, "U", 7,
             "R", 15, "U", 6, "R", 7>>)>>

MainTexts ==
    {<<a, b>> : a \in MainLines, b \in MainLines}
        \cup {Scenario2, Scenario3, <<ParsingLine1, ParsingLine2>>}

InitMain ==
    /\ pc = "main_start"
    /\ text \in MainTexts
    /\ wires = <<>>
    /\ out = <<>>
    /\ wire_moves = <<>> /\ pos = 0
    /\ current = origin /\ before = origin /\ points = <<>>
    /\ left = <<>> /\ right = <<>>
    /\ first = origin /\ second = origin
    /\ called = "none" /\ ret = <<>>

\* line 8
MainParse ==
    /\ pc = "main_start"
    /\ LET parsed == parse_wires(text)
       IN  IF parsed.panic
           THEN pc' = "panicked" /\ wires' = wires
           ELSE pc' = "main_parsed" /\ wires' = parsed.wires
    /\ UNCHANGED <<text, out, wire_moves, pos, current, before, points,
                   left, right, first, second, called, ret>>

\* lines 9-12
MainReportClosest ==
    /\ pc = "main_parsed"
    /\ \E closest \in find_closest_intersection(wires[1], wires[2]) :
          out' = Append(out, [label |-> "Closest intersection",
                              value |-> closest])
    /\ pc' = "main_closest"
    /\ UNCHANGED <<text, wires, wire_moves, pos, current, before, points,
                   left, right, first, second, called, ret>>

MainReportMinimal_lenient ==
    /\ pc = "main_closest"
    /\ \E minimal \in find_minimal_step_intersection(wires[1], wires[2]) :
          out' = Append(out, [label |-> "Intersection with minimal steps",
                              value |-> minimal])
    /\ pc' = "main_done"
    /\ UNCHANGED <<text, wires, wire_moves, pos, current, before, points,
                   left, right, first, second, called, ret>>

\* lines 14-17: unwrap() of None aborts before anything is printed
MainReportMinimal ==
    /\ pc = "main_closest"
    /\ \E minimal \in find_minimal_step_intersection(wires[1], wires[2]) :
          IF minimal = None
          THEN pc' = "main_aborted" /\ out' = out
          ELSE /\ pc' = "main_done"
               /\ out' = Append(out, [label |-> "Intersection with minimal steps",
                                      value |-> minimal[1]])
    /\ UNCHANGED <<text, wires, wire_moves, pos, current, before, points,
                   left, right, first, second, called, ret>>

Next == MainParse \/ MainReportClosest \/ MainReportMinimal

Spec == InitMain /\ [][Next]_vars

(***************************************************************************)
(* Properties of main.                                                     *)
(***************************************************************************)
Manhattan(p) == Abs(p.x) + Abs(p.y)

\* the points two sequences have in common, the origin apart
Common(l, r) ==
    {p \in Range(l) : p # origin /\ \E i \in 1..Len(r) : r[i] = p}

\* C7: on the two reference inputs the closest intersection is at Manhattan
\* distance 159 resp. 135 and the minimal combined step count is 610 resp. 410.
C7_ReferenceResults ==
    /\ (text = Scenario2 /\ pc \in {"main_done", "main_aborted"}) =>
          /\ pc = "main_done"
          /\ out[1].value # None
          /\ Manhattan(out[1].value[1]) = 159
          /\ out[2].value = 610
    /\ (text = Scenario3 /\ pc \in {"main_done", "main_aborted"}) =>
          /\ pc = "main_done"
          /\ out[1].value # None
          /\ Manhattan(out[1].value[1]) = 135
          /\ out[2].value = 410

C7_Witness ==
    /\ text = Scenario3
    /\ pc = "main_done"
    /\ Len(out) = 2
    /\ out[2].value = 410

\* C8: the closest-intersection line is always the first line; without a
\* common point other than the origin it shows None and the program aborts
\* with no second line; with one, both lines appear in order and the
\* program ends normally.
C8_ReportOrder ==
    LET shared == IF Len(wires) = 2 THEN Common(wires[1], wires[2]) ELSE {}
    IN  /\ pc \in {"main_start", "main_parsed"} => out = <<>>
        /\ out # <<>> => out[1].label = "Closest intersection"
        /\ pc = "main_closest" =>
              /\ Len(out) = 1
              /\ (out[1].value = None) <=> (shared = {})
        /\ pc = "main_aborted" =>
              /\ shared = {}
              /\ out = <<[label |-> "Closest intersection", value |-> None]>>
        /\ pc = "main_done" =>
              /\ shared # {}
              /\ Len(out) = 2
              /\ out[1].value # None
              /\ out[2].label = "Intersection with minimal steps"
        /\ pc # "panicked"

C8_Witness ==
    /\ pc = "main_aborted"
    /\ Len(wires) = 2
    /\ Common(wires[1], wires[2]) = {}
    /\ out = <<[label |-> "Closest intersection", value |-> None]>>

(***************************************************************************)
(* Function specification: the find_* functions called on two point        *)
(* sequences (arbitrary ones, and rasterized wires), all_points_between    *)
(* called on two endpoints.  A function may be called again and again on   *)
(* the same arguments.                                                     *)
(***************************************************************************)
\* points with equal and with different Manhattan distances
PointPool == {origin, Point(1, 0), Point(0, -1), Point(-1, 1)}

PointSeqs == UNION {[1..n -> PointPool] : n \in 0..MaxLen}

\* second wires for the rasterized arguments
ProbeLines ==
    {Line(<<"R", 1>>), Line(<<"U", 1, "R", 2>>), Line(<<"R", 2, "L", 1>>),
     Line(<<"D", 2, "L", 1>>)}

Endpoints == {Point(px, py) : px \in -MaxCoord..MaxCoord, py \in -MaxCoord..MaxCoord}

InitFn ==
    /\ wires = <<>>
    /\ out = <<>>
    /\ wire_moves = <<>> /\ pos = 0
    /\ current = origin /\ before = origin /\ points = <<>>
    /\ called = "none" /\ ret = <<>>
    /\ \/ /\ pc = "fn_find"
          /\ text = <<>>
          /\ left \in PointSeqs
          /\ right \in PointSeqs
          /\ first = origin /\ second = origin
       \/ /\ pc = "fn_find"
          /\ text \in {<<a, b>> : a \in MainLines, b \in ProbeLines}
          /\ left = parse_wires(text).wires[1]
          /\ right = parse_wires(text).wires[2]
          /\ first = origin /\ second = origin
       \/ /\ pc = "fn_between"
          /\ text = <<>>
          /\ left = <<>> /\ right = <<>>
          /\ first \in Endpoints
          /\ second \in Endpoints

CallFindIntersections ==
    /\ pc = "fn_find"
    /\ called' = "find_intersections"
    /\ ret' = find_intersections(left, right)
    /\ UNCHANGED <<pc, text, wires, out, wire_moves, pos, current, before,
                   points, left, right, first, second>>

CallFindClosest ==
    /\ pc = "fn_find"
    /\ called' = "find_closest_intersection"
    /\ ret' \in find_closest_intersection(left, right)
    /\ UNCHANGED <<pc, text, wires, out, wire_moves, pos, current, before,
                   points, left, right, first, second>>

CallFindMinimal ==
    /\ pc = "fn_find"
    /\ called' = "find_minimal_step_intersection"
    /\ ret' \in find_minimal_step_intersection(left, right)
    /\ UNCHANGED <<pc, text, wires, out, wire_moves, pos, current, before,
                   points, left, right, first, second>>

CallAllPointsBetween ==
    /\ pc = "fn_between"
    /\ called' = "all_points_between"
    /\ ret' = all_points_between(first, second)
    /\ UNCHANGED <<pc, text, wires, out, wire_moves, pos, current, before,
                   points, left, right, first, second>>

NextFn ==
    \/ CallFindIntersections
    \/ CallFindClosest
    \/ CallFindMinimal
    \/ CallAllPointsBetween

SpecFn == InitFn /\ [][NextFn]_vars

(***************************************************************************)
(* Properties of the functions.                                            *)
(***************************************************************************)
Occurs(p, s) == \E i \in 1..Len(s) : s[i] = p

\* zero-based index of the first occurrence of p in s
FirstOccurrence(s, p) ==
    (CHOOSE i \in 1..Len(s) : s[i] = p /\ \A j \in 1..(i - 1) : s[j] # p) - 1

\* unit steps walked from the origin along the moves until p is first reached
StepsWalked(moves, p) ==
    LET walk == <<origin>> \o ReferenceWalk(moves, origin)
    IN  CHOOSE k \in 0..(Len(walk) - 1) :
            walk[k + 1] = p /\ \A j \in 0..(k - 1) : walk[j + 1] # p

CombinedSteps(p) == FirstOccurrence(left, p) + FirstOccurrence(right, p)

\* C4: find_intersections returns exactly the points that occur in both
\* sequences and are not the origin.
C4_ExactIntersection ==
    called = "find_intersections" =>
        /\ origin \notin ret
        /\ \A p \in ret : Occurs(p, left) /\ Occurs(p, right)
        /\ \A p \in Range(left) \cup Range(right) :
              (Occurs(p, left) /\ Occurs(p, right) /\ p # origin) => p \in ret

C4_Witness ==
    /\ called = "find_intersections"
    /\ Occurs(origin, left) /\ Occurs(origin, right)
    /\ Cardinality(ret) = 2
    /\ Len(left) > Cardinality(Range(left))
    /\ origin \notin ret

\* C5: find_closest_intersection returns None exactly when there is no
\* common point other than the origin, otherwise a common point whose
\* Manhattan distance no other common point undercuts.
C5_ClosestIsMinimal ==
    called = "find_closest_intersection" =>
        /\ (ret = None) <=> (Common(left, right) = {})
        /\ ret # None =>
              /\ ret[1] \in Common(left, right)
              /\ \A q \in Common(left, right) : Manhattan(ret[1]) <= Manhattan(q)

C5_Witness ==
    /\ called = "find_closest_intersection"
    /\ ret # None
    /\ \E q \in Common(left, right) : Manhattan(q) > Manhattan(ret[1])

\* C6: find_minimal_step_intersection returns None exactly when there is no
\* common point other than the origin, otherwise the least sum of the two
\* first-occurrence indices over the common points; in a path rasterized
\* from moves of distance >= 1 that index is the number of grid steps walked
\* from the origin until the point is first reached.
C6_MinimalFirstOccurrence ==
    called = "find_minimal_step_intersection" =>
        /\ (ret = None) <=> (Common(left, right) = {})
        /\ ret # None =>
              /\ \E p \in Common(left, right) : ret[1] = CombinedSteps(p)
              /\ \A q \in Common(left, right) : ret[1] <= CombinedSteps(q)
        /\ (text # <<>> /\ AllPositive(ReadMoves(text)[1])
                /\ AllPositive(ReadMoves(text)[2])) =>
              \A p \in Common(left, right) :
                 /\ FirstOccurrence(left, p) = StepsWalked(ReadMoves(text)[1], p)
                 /\ FirstOccurrence(right, p) = StepsWalked(ReadMoves(text)[2], p)

C6_Witness ==
    /\ called = "find_minimal_step_intersection"
    /\ text # <<>>
    /\ ret # None
    /\ \E p \in Common(left, right) :
          /\ ret[1] = CombinedSteps(p)
          /\ \E i, j \in 1..Len(left) : i < j /\ left[i] = p /\ left[j] = p

\* C9 as stated: a second call on the same arguments returns what the first
\* call returned, for both functions.
C9_SameResultEveryCall ==
    [][/\ (called = "find_closest_intersection"
             /\ called' = "find_closest_intersection") => ret' = ret
       /\ (called = "find_minimal_step_intersection"
             /\ called' = "find_minimal_step_intersection") => ret' = ret]_vars

\* C9 amended: a second call of find_minimal_step_intersection returns the
\* same value; a second call of find_closest_intersection returns None again
\* or a point at the same Manhattan distance, the same point when only one
\* common point is at the minimal distance.
C9_SameDistanceEveryCall ==
    [][/\ (called = "find_closest_intersection"
             /\ called' = "find_closest_intersection") =>
            /\ (ret' = None) <=> (ret = None)
            /\ ret # None =>
                  /\ Manhattan(ret'[1]) = Manhattan(ret[1])
                  /\ (Cardinality({q \in Common(left, right) :
                          Manhattan(q) = Manhattan(ret[1])}) = 1) => ret' = ret
       /\ (called = "find_minimal_step_intersection"
             /\ called' = "find_minimal_step_intersection") => ret' = ret]_vars

C9_Witness ==
    /\ called = "find_closest_intersection"
    /\ ret # None
    /\ \E q \in Common(left, right) :
          q # ret[1] /\ Manhattan(q) = Manhattan(ret[1])

\* differ along exactly one axis
OneAxis(p, q) == (p.x # q.x) # (p.y # q.y)

\* C10 as stated: all_points_between fails its assertion, returning no
\* points, for every pair of endpoints that does not differ along exactly
\* one axis, and returns normally for every pair that does.
C10_PanicsUnlessOneAxis ==
    called = "all_points_between" =>
        /\ ~OneAxis(first, second) => (ret.panic /\ ret.points = <<>>)
        /\ OneAxis(first, second) => ~ret.panic

\* C10 amended: the assertion fails exactly for endpoints that differ in
\* both x and y; equal endpoints return normally, with no points, as do
\* endpoints that differ along exactly one axis.
C10_PanicsOnlyOffAxis ==
    called = "all_points_between" =>
        /\ ret.panic <=> (first.x # second.x /\ first.y # second.y)
        /\ ret.panic => ret.points = <<>>
        /\ first = second => (~ret.panic /\ ret.points = <<>>)
        /\ OneAxis(first, second) => ~ret.panic

C10_Witness ==
    /\ called = "all_points_between"
    /\ first = second
    /\ first = Point(1, 1)
    /\ ~ret.panic
    /\ ret.points = <<>>

====
